---- MODULE Spec2Model ----
(***************************************************************************)
(* Light state reproduction: homeassistant/components/light/               *)
(* reproduce_state.py.  A batch of target states is reproduced against the *)
(* host's state store; each target either ends without a service call or  *)
(* issues one blocking light.turn_on / light.turn_off call.                *)
(*                                                                         *)
(* An attribute bag (Python dict / MappingProxyType) is a function from    *)
(* the names it holds to their values.  Attribute values are 1..MaxVal,    *)
(* color modes are strings, and Python's None is 0.                        *)
(***************************************************************************)
EXTENDS Integers, Sequences, FiniteSets, TLC

VARIABLES
    hass_states,        \* hass.states: entity_id -> current State (partial map)
    states,             \* the batch: sequence of target State records
    reproduce_options,  \* <<>> for None, <<dict>> for a given options dict
    pc,                 \* per target: position of its _async_reproduce_state coroutine
    service_calls,      \* hass.services.async_call invocations, in call order
    warnings,           \* per target: _LOGGER.warning records, in order
    gather              \* outcome of the awaited asyncio.gather: pending/returned/raised

vars == <<hass_states, states, reproduce_options, pc, service_calls, warnings, gather>>

----------------------------------------------------------------------------
(* Constants of the module under study *)

None == 0

STATE_ON == "on"
STATE_OFF == "off"
SERVICE_TURN_ON == "turn_on"
SERVICE_TURN_OFF == "turn_off"
ATTR_ENTITY_ID == "entity_id"

ATTR_BRIGHTNESS == "brightness"
ATTR_BRIGHTNESS_PCT == "brightness_pct"
ATTR_COLOR_MODE == "color_mode"
ATTR_COLOR_NAME == "color_name"
ATTR_COLOR_TEMP == "color_temp"
ATTR_EFFECT == "effect"
ATTR_FLASH == "flash"
ATTR_HS_COLOR == "hs_color"
ATTR_KELVIN == "kelvin"
ATTR_PROFILE == "profile"
ATTR_RGB_COLOR == "rgb_color"
ATTR_RGBW_COLOR == "rgbw_color"
ATTR_RGBWW_COLOR == "rgbww_color"
ATTR_TRANSITION == "transition"
ATTR_WHITE == "white"
ATTR_WHITE_VALUE == "white_value"
ATTR_XY_COLOR == "xy_color"

COLOR_MODE_COLOR_TEMP == "color_temp"
COLOR_MODE_HS == "hs"
COLOR_MODE_RGB == "rgb"
COLOR_MODE_RGBW == "rgbw"
COLOR_MODE_RGBWW == "rgbww"
COLOR_MODE_UNKNOWN == "unknown"
COLOR_MODE_WHITE == "white"
COLOR_MODE_XY == "xy"
\* a valid color mode of the light domain that has no entry in COLOR_MODE_TO_ATTRIBUTE
COLOR_MODE_BRIGHTNESS == "brightness"

VALID_STATES == {STATE_ON, STATE_OFF}

ATTR_GROUP ==
    << ATTR_BRIGHTNESS, ATTR_BRIGHTNESS_PCT, ATTR_EFFECT, ATTR_FLASH,
       ATTR_WHITE_VALUE, ATTR_TRANSITION >>

COLOR_GROUP ==
    << ATTR_HS_COLOR, ATTR_COLOR_TEMP, ATTR_RGB_COLOR, ATTR_RGBW_COLOR,
       ATTR_RGBWW_COLOR, ATTR_XY_COLOR, ATTR_PROFILE, ATTR_COLOR_NAME, ATTR_KELVIN >>

\* color mode -> <<service parameter, state attribute>>
COLOR_MODE_TO_ATTRIBUTE ==
    [m \in { COLOR_MODE_COLOR_TEMP, COLOR_MODE_HS, COLOR_MODE_RGB, COLOR_MODE_RGBW,
             COLOR_MODE_RGBWW, COLOR_MODE_WHITE, COLOR_MODE_XY } |->
        CASE m = COLOR_MODE_COLOR_TEMP -> <<ATTR_COLOR_TEMP, ATTR_COLOR_TEMP>>
          [] m = COLOR_MODE_HS         -> <<ATTR_HS_COLOR, ATTR_HS_COLOR>>
          [] m = COLOR_MODE_RGB        -> <<ATTR_RGB_COLOR, ATTR_RGB_COLOR>>
          [] m = COLOR_MODE_RGBW       -> <<ATTR_RGBW_COLOR, ATTR_RGBW_COLOR>>
          [] m = COLOR_MODE_RGBWW      -> <<ATTR_RGBWW_COLOR, ATTR_RGBWW_COLOR>>
          [] m = COLOR_MODE_WHITE      -> <<ATTR_WHITE, ATTR_BRIGHTNESS>>
          [] m = COLOR_MODE_XY         -> <<ATTR_XY_COLOR, ATTR_XY_COLOR>>]

DEPRECATED_GROUP ==
    { ATTR_BRIGHTNESS_PCT, ATTR_COLOR_NAME, ATTR_FLASH, ATTR_KELVIN, ATTR_PROFILE,
      ATTR_TRANSITION }

----------------------------------------------------------------------------
(* dict helpers *)

Range(seq) == { seq[k] : k \in 1..Len(seq) }

EmptyDict == [x \in {} |-> None]

\* d[k] = v
DictSet(d, k, v) == [x \in DOMAIN d \cup {k} |-> IF x = k THEN v ELSE d[x]]

\* d.pop(k, None)
DictPop(d, k) == [x \in DOMAIN d \ {k} |-> d[x]]

\* d.get(k, default)
DictGet(d, k, default) == IF k \in DOMAIN d THEN d[k] ELSE default

----------------------------------------------------------------------------
(* _color_mode_same and check_attr_equal *)

_color_mode_same(cur_state, state) ==
    LET cur_color_mode == DictGet(cur_state.attributes, ATTR_COLOR_MODE, COLOR_MODE_UNKNOWN)
        saved_color_mode == DictGet(state.attributes, ATTR_COLOR_MODE, COLOR_MODE_UNKNOWN)
    IN  IF saved_color_mode = COLOR_MODE_UNKNOWN
        THEN TRUE
        ELSE cur_color_mode = saved_color_mode

check_attr_equal(attr1, attr2, attr_str) ==
    DictGet(attr1, attr_str, None) = DictGet(attr2, attr_str, None)

----------------------------------------------------------------------------
(* The steps of _async_reproduce_state *)

\* lines 131-133: the deprecated attributes the target uses
deprecated_attrs(state) == DOMAIN state.attributes \cap DEPRECATED_GROUP

\* faulty variant of NormalizeWhite: the copy gets the white color mode but its
\* brightness is left as the target had it
NormalizeWhiteModeOnly(state) ==
    IF ATTR_WHITE \in DOMAIN state.attributes /\ ATTR_COLOR_MODE \notin DOMAIN state.attributes
    THEN [state EXCEPT !.attributes = DictSet(state.attributes, ATTR_COLOR_MODE, COLOR_MODE_WHITE)]
    ELSE state

\* lines 135-139: a target with white and no color_mode is replaced by a copy
\* whose brightness is the white value and whose color_mode is white
NormalizeWhite(state) ==
    IF ATTR_WHITE \in DOMAIN state.attributes /\ ATTR_COLOR_MODE \notin DOMAIN state.attributes
    THEN [state EXCEPT !.attributes =
            DictSet(DictSet(state.attributes, ATTR_BRIGHTNESS, state.attributes[ATTR_WHITE]),
                    ATTR_COLOR_MODE, COLOR_MODE_WHITE)]
    ELSE state

\* faulty variant of AlreadyAtState: the colors of COLOR_GROUP are not compared
AlreadyAtStatePlainOnly(cur_state, state) ==
    /\ cur_state.state = state.state
    /\ _color_mode_same(cur_state, state)
    /\ \A k \in 1..Len(ATTR_GROUP) :
          check_attr_equal(cur_state.attributes, state.attributes, ATTR_GROUP[k])

\* lines 142-149: are we already at the right state
AlreadyAtState(cur_state, state) ==
    /\ cur_state.state = state.state
    /\ _color_mode_same(cur_state, state)
    /\ \A k \in 1..Len(ATTR_GROUP \o COLOR_GROUP) :
          check_attr_equal(cur_state.attributes, state.attributes, (ATTR_GROUP \o COLOR_GROUP)[k])

\* lines 152-155: the entity id and the transition override
InitialServiceData(state, options) ==
    LET service_data == DictSet(EmptyDict, ATTR_ENTITY_ID, state.entity_id)
    IN  IF options # <<>> /\ ATTR_TRANSITION \in DOMAIN options[1]
        THEN DictSet(service_data, ATTR_TRANSITION, options[1][ATTR_TRANSITION])
        ELSE service_data

\* lines 159-162: copy every attribute of ATTR_GROUP the target has, in list order
RECURSIVE CopyAttrGroup(_, _, _)
CopyAttrGroup(service_data, attributes, k) ==
    IF k > Len(ATTR_GROUP) THEN service_data
    ELSE CopyAttrGroup(
            IF ATTR_GROUP[k] \in DOMAIN attributes
            THEN DictSet(service_data, ATTR_GROUP[k], attributes[ATTR_GROUP[k]])
            ELSE service_data,
            attributes, k + 1)

\* faulty variant of CopyFirstColor: the loop has no break
RECURSIVE CopyEveryColor(_, _, _)
CopyEveryColor(service_data, attributes, k) ==
    IF k > Len(COLOR_GROUP) THEN service_data
    ELSE CopyEveryColor(
            IF COLOR_GROUP[k] \in DOMAIN attributes
            THEN DictSet(service_data, COLOR_GROUP[k], attributes[COLOR_GROUP[k]])
            ELSE service_data,
            attributes, k + 1)

\* lines 184-187: the first color of COLOR_GROUP the target has, then break
RECURSIVE CopyFirstColor(_, _, _)
CopyFirstColor(service_data, attributes, k) ==
    IF k > Len(COLOR_GROUP) THEN service_data
    ELSE IF COLOR_GROUP[k] \in DOMAIN attributes
         THEN DictSet(service_data, COLOR_GROUP[k], attributes[COLOR_GROUP[k]])
         ELSE CopyFirstColor(service_data, attributes, k + 1)

\* faulty variant of ColorServiceData: a missing source attribute is skipped
\* instead of ending the call, so the plain attributes are still sent
ColorServiceDataKeepsGoing(service_data, state) ==
    IF DictGet(state.attributes, ATTR_COLOR_MODE, COLOR_MODE_UNKNOWN) # COLOR_MODE_UNKNOWN
    THEN LET popped == DictPop(service_data, ATTR_WHITE_VALUE)
             color_mode == state.attributes[ATTR_COLOR_MODE]
         IN  IF /\ color_mode \in DOMAIN COLOR_MODE_TO_ATTRIBUTE
                /\ COLOR_MODE_TO_ATTRIBUTE[color_mode][2] \in DOMAIN state.attributes
             THEN [missing |-> {},
                   data |-> DictSet(popped, COLOR_MODE_TO_ATTRIBUTE[color_mode][1],
                                    state.attributes[COLOR_MODE_TO_ATTRIBUTE[color_mode][2]])]
             ELSE [missing |-> {}, data |-> popped]
    ELSE [missing |-> {}, data |-> CopyFirstColor(service_data, state.attributes, 1)]

\* faulty variant of ColorServiceData: the first color is copied whether or not
\* a color mode is given
ColorServiceDataAndFirstColor(service_data, state) ==
    LET with_color == CopyFirstColor(service_data, state.attributes, 1)
    IN  IF DictGet(state.attributes, ATTR_COLOR_MODE, COLOR_MODE_UNKNOWN) # COLOR_MODE_UNKNOWN
        THEN LET popped == DictPop(with_color, ATTR_WHITE_VALUE)
                 color_mode == state.attributes[ATTR_COLOR_MODE]
             IN  IF color_mode \in DOMAIN COLOR_MODE_TO_ATTRIBUTE
                 THEN IF COLOR_MODE_TO_ATTRIBUTE[color_mode][2] \notin DOMAIN state.attributes
                      THEN [missing |-> {COLOR_MODE_TO_ATTRIBUTE[color_mode][2]}, data |-> popped]
                      ELSE [missing |-> {},
                            data |-> DictSet(popped, COLOR_MODE_TO_ATTRIBUTE[color_mode][1],
                                             state.attributes[COLOR_MODE_TO_ATTRIBUTE[color_mode][2]])]
                 ELSE [missing |-> {}, data |-> popped]
        ELSE [missing |-> {}, data |-> with_color]

\* lines 164-187: the color part of a turn_on; a non-empty missing is the early return
\* of line 180, with the attribute name the warning carries
ColorServiceData(service_data, state) ==
    IF DictGet(state.attributes, ATTR_COLOR_MODE, COLOR_MODE_UNKNOWN) # COLOR_MODE_UNKNOWN
    THEN LET popped == DictPop(service_data, ATTR_WHITE_VALUE)
             color_mode == state.attributes[ATTR_COLOR_MODE]
         IN  IF color_mode \in DOMAIN COLOR_MODE_TO_ATTRIBUTE
             THEN LET parameter == COLOR_MODE_TO_ATTRIBUTE[color_mode][1]
                      state_attr == COLOR_MODE_TO_ATTRIBUTE[color_mode][2]
                  IN  IF state_attr \notin DOMAIN state.attributes
                      THEN [missing |-> {state_attr}, data |-> popped]
                      ELSE [missing |-> {},
                            data |-> DictSet(popped, parameter, state.attributes[state_attr])]
             ELSE [missing |-> {}, data |-> popped]
    ELSE [missing |-> {}, data |-> CopyFirstColor(service_data, state.attributes, 1)]

\* faulty variant of BuildServiceCall: the attribute copy is not limited to turn_on
BuildServiceCallCopiesWhenOff(state, options) ==
    LET service_data == InitialServiceData(state, options)
        c == ColorServiceData(CopyAttrGroup(service_data, state.attributes, 1), state)
    IN  [service |-> IF state.state = STATE_ON THEN SERVICE_TURN_ON ELSE SERVICE_TURN_OFF,
         missing |-> c.missing, data |-> c.data]

\* lines 152-190: the service and service data of a target that is not already reached
BuildServiceCall(state, options) ==
    LET service_data == InitialServiceData(state, options)
    IN  IF state.state = STATE_ON
        THEN LET c == ColorServiceData(CopyAttrGroup(service_data, state.attributes, 1), state)
             IN  [service |-> SERVICE_TURN_ON, missing |-> c.missing, data |-> c.data]
        ELSE [service |-> SERVICE_TURN_OFF, missing |-> {}, data |-> service_data]

Warning(kind, attrs) == [kind |-> kind, attrs |-> attrs]

\* lines 130-133
DeprecationWarnings(state) ==
    IF deprecated_attrs(state) # {}
    THEN << Warning("deprecated", deprecated_attrs(state)) >>
    ELSE << >>

----------------------------------------------------------------------------
(* Actions *)

Tasks == 1..Len(states)

\* asyncio.gather without return_exceptions: the first child that raises settles
\* the outer future with its exception; otherwise the outer future is settled
\* when the last child has finished
GatherAfter(newpc, failed) ==
    IF gather # "pending" THEN gather
    ELSE IF failed THEN "raised"
    ELSE IF \A j \in Tasks : newpc[j] = "done" THEN "returned"
    ELSE "pending"

\* faulty variant of Finish: a target that ends with a warning ends the targets
\* of the batch that have not started
FinishStopsBatch(i, warns) ==
    LET stop == \E k \in DOMAIN warns : warns[k].kind # "deprecated"
        newpc == [j \in DOMAIN pc |->
                    IF j = i \/ (stop /\ pc[j] = "start") THEN "done" ELSE pc[j]]
    IN  /\ pc' = newpc
        /\ warnings' = [warnings EXCEPT ![i] = warns]
        /\ gather' = GatherAfter(newpc, FALSE)
        /\ UNCHANGED service_calls

\* the coroutine of target i returns without a service call (lines 122, 128, 150, 180)
Finish(i, warns) ==
    LET newpc == [pc EXCEPT ![i] = "done"]
    IN  /\ pc' = newpc
        /\ warnings' = [warnings EXCEPT ![i] = warns]
        /\ gather' = GatherAfter(newpc, FALSE)
        /\ UNCHANGED service_calls

\* _async_reproduce_state from its first line to the await of line 192: the
\* coroutine does not suspend before hass.services.async_call.  The module
\* only reads hass.states; the order in which the event loop runs the
\* coroutines and completes their calls is left open.
ReproduceState(i) ==
    /\ pc[i] = "start"
    /\ LET target == states[i]
       IN  IF target.entity_id \notin DOMAIN hass_states
           THEN Finish(i, << Warning("not_found", {}) >>)
           ELSE IF target.state \notin VALID_STATES
           THEN Finish(i, << Warning("invalid_state", {}) >>)
           ELSE LET cur_state == hass_states[target.entity_id]
                    warns == DeprecationWarnings(target)
                    state == NormalizeWhite(target)
                    call == BuildServiceCall(state, reproduce_options)
                IN  IF AlreadyAtState(cur_state, state)
                    THEN Finish(i, warns)
                    ELSE IF call.missing # {}
                    THEN Finish(i, warns \o << Warning("missing_attribute", call.missing) >>)
                    ELSE /\ pc' = [pc EXCEPT ![i] = "calling"]
                         /\ warnings' = [warnings EXCEPT ![i] = warns]
                         /\ service_calls' = Append(service_calls,
                                [task |-> i, service |-> call.service, data |-> call.data])
                         /\ UNCHANGED gather
    /\ UNCHANGED <<hass_states, states, reproduce_options>>

\* the blocking service call of line 192 returns
ServiceCallReturns(i) ==
    /\ pc[i] = "calling"
    /\ LET newpc == [pc EXCEPT ![i] = "done"]
       IN  /\ pc' = newpc
           /\ gather' = GatherAfter(newpc, FALSE)
    /\ UNCHANGED <<hass_states, states, reproduce_options, service_calls, warnings>>

\* the blocking service call of line 192 raises; the coroutine has no handler
ServiceCallRaises(i) ==
    /\ pc[i] = "calling"
    /\ LET newpc == [pc EXCEPT ![i] = "failed"]
       IN  /\ pc' = newpc
           /\ gather' = GatherAfter(newpc, TRUE)
    /\ UNCHANGED <<hass_states, states, reproduce_options, service_calls, warnings>>

Next ==
    \/ \E i \in Tasks : ReproduceState(i)
    \/ \E i \in Tasks : ServiceCallReturns(i)
    \/ \E i \in Tasks : ServiceCallRaises(i)

----------------------------------------------------------------------------
(* Inputs *)

MaxVal == 2
MaxAttrs == 2
MaxNearAttrs == 1
NTargets == 2

Vals == 1..MaxVal

ColorModes ==
    { COLOR_MODE_COLOR_TEMP, COLOR_MODE_HS, COLOR_MODE_RGB, COLOR_MODE_RGBW,
      COLOR_MODE_RGBWW, COLOR_MODE_WHITE, COLOR_MODE_XY, COLOR_MODE_UNKNOWN,
      COLOR_MODE_BRIGHTNESS }

\* the attributes whose values are opaque to the module: it copies and compares them
ValueAttrs == Range(ATTR_GROUP) \cup Range(COLOR_GROUP) \cup {ATTR_WHITE}

RECURSIVE NameSets(_, _)
NameSets(names, n) ==
    IF n = 0 THEN {{}}
    ELSE LET smaller == NameSets(names, n - 1)
         IN  smaller \cup { S \cup {a} : S \in smaller, a \in names }

\* the bag that holds the value attributes of values and, when given, the color mode
Bag(values, mode) ==
    [a \in DOMAIN values \cup {ATTR_COLOR_MODE : m \in mode} |->
        IF a \in DOMAIN values THEN values[a] ELSE CHOOSE m \in mode : TRUE]

\* no color mode, or any one of them
OptionalMode == {{}} \cup { {m} : m \in ColorModes }

\* at most MaxAttrs value attributes, with or without a color mode
BuildNames == NameSets(ValueAttrs, MaxAttrs)

\* at most MaxNearAttrs attributes of any kind
SmallBags ==
    UNION { { Bag(g, mode) : g \in [S -> Vals],
                             mode \in { x \in OptionalMode : Cardinality(S) + Cardinality(x) <= MaxNearAttrs } } :
            S \in NameSets(ValueAttrs, MaxNearAttrs) }

\* the bags that differ from bag in at most one attribute
Near(bag) ==
    {bag}
    \cup { DictPop(bag, a) : a \in DOMAIN bag }
    \cup { DictSet(bag, a, v) : a \in ValueAttrs, v \in Vals }
    \cup { DictSet(bag, ATTR_COLOR_MODE, m) : m \in ColorModes }

\* what a light in white mode reports for a bag that asks for white
WhiteModeBag(bag) ==
    IF ATTR_WHITE \in DOMAIN bag
    THEN DictSet(DictSet(bag, ATTR_BRIGHTNESS, bag[ATTR_WHITE]), ATTR_COLOR_MODE, COLOR_MODE_WHITE)
    ELSE bag

\* reproduce_options: None, an empty dict, or a dict with a transition
Options == { << >>, << EmptyDict >>, << [x \in {ATTR_TRANSITION} |-> MaxVal] >> }

EntityIds == << "light.a", "light.b", "light.c", "light.d" >>

Target(e, s, attrs) == [entity_id |-> e, state |-> s, attributes |-> attrs]

Known(e, s, attrs) == [x \in {e} |-> [entity_id |-> e, state |-> s, attributes |-> attrs]]

InitTasks ==
    /\ pc = [i \in 1..Len(states) |-> "start"]
    /\ warnings = [i \in 1..Len(states) |-> << >>]
    /\ service_calls = << >>
    /\ gather = "pending"

\* one valid target with a rich attribute bag, against a light that is on and
\* reports no attributes
InitBuild ==
    /\ \E S \in BuildNames, s \in VALID_STATES :
          \E g \in [S -> Vals], mode \in OptionalMode :
              states = << Target(EntityIds[1], s, Bag(g, mode)) >>
    /\ hass_states = Known(EntityIds[1], STATE_ON, EmptyDict)
    /\ reproduce_options \in Options

\* one valid target against a light at, or one attribute away from, what the target asks
InitNear ==
    /\ \E attrs \in SmallBags, s \in VALID_STATES, cs \in VALID_STATES :
          /\ states = << Target(EntityIds[1], s, attrs) >>
          /\ \E cattrs \in Near(attrs) \cup Near(WhiteModeBag(attrs)) :
                hass_states = Known(EntityIds[1], cs, cattrs)
    /\ reproduce_options \in { << >>, << [x \in {ATTR_TRANSITION} |-> MaxVal] >> }

\* an unknown entity or a target state that is neither on nor off
InitRejected ==
    /\ \E attrs \in SmallBags, s \in VALID_STATES \cup {"unavailable"} :
          states = << Target(EntityIds[1], s, attrs) >>
    /\ \/ hass_states = EmptyDict
       \/ /\ states[1].state \notin VALID_STATES
          /\ \E cs \in VALID_STATES : hass_states = Known(EntityIds[1], cs, EmptyDict)
    /\ reproduce_options \in Options

Init ==
    /\ \/ InitBuild
       \/ InitNear
       \/ InitRejected
    /\ InitTasks

Spec == Init /\ [][Next]_vars

\* the targets of a batch: one entity each
BatchBags ==
    { EmptyDict,
      [a \in {ATTR_BRIGHTNESS} |-> 1],
      [a \in {ATTR_COLOR_MODE} |-> COLOR_MODE_RGB],
      [a \in {ATTR_HS_COLOR, ATTR_TRANSITION} |-> 2] }

BatchTarget(i) ==
    { Target(EntityIds[i], s, attrs) : s \in VALID_STATES \cup {"unavailable"}, attrs \in BatchBags }

InitBatch ==
    /\ states \in [1..NTargets -> UNION { BatchTarget(i) : i \in 1..NTargets }]
    /\ \A i \in 1..NTargets : states[i] \in BatchTarget(i)
    /\ \E known \in SUBSET { EntityIds[i] : i \in 1..NTargets } :
          hass_states = [e \in known |-> [entity_id |-> e, state |-> STATE_OFF, attributes |-> EmptyDict]]
    /\ reproduce_options \in {<< >>, << [x \in {ATTR_TRANSITION} |-> 1] >>}
    /\ InitTasks

SpecBatch == InitBatch /\ [][Next]_vars

----------------------------------------------------------------------------
(* The vocabulary of the properties, stated on the inputs and on what the   *)
(* host observed: the service calls and the warnings                        *)

PlainGroup == {"brightness", "brightness_pct", "effect", "flash", "white_value", "transition"}

ColorOrder ==
    << "hs_color", "color_temp", "rgb_color", "rgbw_color", "rgbww_color", "xy_color",
       "profile", "color_name", "kelvin" >>

ColorNames == Range(ColorOrder)

Started(i) == pc[i] # "start"

Present(i) == states[i].entity_id \in DOMAIN hass_states

Cur(i) == hass_states[states[i].entity_id]

CallsOf(i) == { k \in DOMAIN service_calls : service_calls[k].task = i }

Warned(i, kind) == \E k \in DOMAIN warnings[i] : warnings[i][k].kind = kind

HasOverride == reproduce_options # << >> /\ "transition" \in DOMAIN reproduce_options[1]

Override == reproduce_options[1]["transition"]

\* the attributes of the derived copy: white without color_mode becomes white mode
DerivedAttrs(i) ==
    LET a == states[i].attributes
    IN  IF "white" \in DOMAIN a /\ "color_mode" \notin DOMAIN a
        THEN [x \in DOMAIN a \cup {"brightness", "color_mode"} |->
                IF x = "brightness" THEN a["white"]
                ELSE IF x = "color_mode" THEN "white" ELSE a[x]]
        ELSE a

AttrEqual(a, b, name) ==
    /\ name \in DOMAIN a <=> name \in DOMAIN b
    /\ name \in DOMAIN a => a[name] = b[name]

ColorModeEquivalent(c, t) ==
    \/ "color_mode" \notin DOMAIN t
    \/ t["color_mode"] = "unknown"
    \/ "color_mode" \in DOMAIN c /\ c["color_mode"] = t["color_mode"]

\* target i is already reached by its entity
Idempotent(i) ==
    /\ Cur(i).state = states[i].state
    /\ ColorModeEquivalent(Cur(i).attributes, DerivedAttrs(i))
    /\ \A name \in PlainGroup \cup ColorNames :
          AttrEqual(Cur(i).attributes, DerivedAttrs(i), name)

\* target i is on, known, and not yet reached
OnAndNeeded(i) ==
    /\ Started(i) /\ Present(i)
    /\ states[i].state = "on"
    /\ ~Idempotent(i)

DeclaresMappedMode(i) ==
    /\ "color_mode" \in DOMAIN states[i].attributes
    /\ states[i].attributes["color_mode"] \in DOMAIN COLOR_MODE_TO_ATTRIBUTE

ModeParameter(i) == COLOR_MODE_TO_ATTRIBUTE[states[i].attributes["color_mode"]][1]

ModeSource(i) == COLOR_MODE_TO_ATTRIBUTE[states[i].attributes["color_mode"]][2]

LacksModeSource(i) == DeclaresMappedMode(i) /\ ModeSource(i) \notin DOMAIN states[i].attributes

----------------------------------------------------------------------------
(* C1 *)

\* C1: whenever an action is dispatched and the options carry a transition
\* override, the action's transition parameter equals the override, for turn_on
\* and turn_off, also when the target carries its own transition
C1_TransitionOverride ==
    \A k \in DOMAIN service_calls :
        HasOverride =>
            /\ "transition" \in DOMAIN service_calls[k].data
            /\ service_calls[k].data["transition"] = Override

----------------------------------------------------------------------------
(* C2 *)

\* C2: for a known entity and a target that is on or off, the call ends at the
\* idempotence check (no action, no missing-attribute rejection) exactly when
\* power states agree, color modes are equivalent and every plain and color
\* attribute is equal in the current state and the derived target
C2_IdempotenceCheck ==
    \A i \in Tasks :
        (Started(i) /\ Present(i) /\ states[i].state \in {"on", "off"}) =>
            ((CallsOf(i) = {} /\ ~Warned(i, "missing_attribute")) <=> Idempotent(i))

\* C2 witness: a white target without color_mode found already reached
C2_Witness ==
    \E i \in Tasks :
        /\ Started(i) /\ Present(i) /\ states[i].state = "on"
        /\ "white" \in DOMAIN states[i].attributes
        /\ "color_mode" \notin DOMAIN states[i].attributes
        /\ Idempotent(i)
        /\ CallsOf(i) = {}

----------------------------------------------------------------------------
(* C3 *)

\* C3: a needed on-target that declares a mapped color mode without the mode's
\* source attribute gets no action at all and a warning naming that attribute
C3_MissingSourceAttribute ==
    \A i \in Tasks :
        (OnAndNeeded(i) /\ LacksModeSource(i)) =>
            /\ CallsOf(i) = {}
            /\ \E k \in DOMAIN warnings[i] :
                  /\ warnings[i][k].kind = "missing_attribute"
                  /\ warnings[i][k].attrs = {ModeSource(i)}

\* C3 witness: white mode without brightness, with a plain attribute that a
\* partial turn_on would have carried
C3_Witness ==
    \E i \in Tasks :
        /\ OnAndNeeded(i) /\ LacksModeSource(i)
        /\ states[i].attributes["color_mode"] = "white"
        /\ "effect" \in DOMAIN states[i].attributes
        /\ Warned(i, "missing_attribute")

----------------------------------------------------------------------------
(* C4 *)

FirstColor(attrs) ==
    ColorOrder[CHOOSE k \in DOMAIN ColorOrder :
                  /\ ColorOrder[k] \in DOMAIN attrs
                  /\ \A j \in 1..(k - 1) : ColorOrder[j] \notin DOMAIN attrs]

C4_Case(i) ==
    /\ OnAndNeeded(i)
    /\ \/ "color_mode" \notin DOMAIN states[i].attributes
       \/ states[i].attributes["color_mode"] = "unknown"
    /\ DOMAIN states[i].attributes \cap ColorNames # {}

C4_OnlyFirstColor(i) ==
    /\ Cardinality(CallsOf(i)) = 1
    /\ \A k \in CallsOf(i) :
          LET data == service_calls[k].data
              first == FirstColor(states[i].attributes)
          IN  /\ service_calls[k].service = "turn_on"
              /\ DOMAIN data \cap ColorNames = {first}
              /\ data[first] = states[i].attributes[first]

\* C4 as stated: a needed on-target whose color_mode is absent or unknown gets a
\* turn_on with exactly one color parameter, the first present one in the fixed order
C4_FirstColorOnly ==
    \A i \in Tasks : C4_Case(i) => C4_OnlyFirstColor(i)

\* C4 amended: the same, for targets that are not turned into white mode, that
\* is unless the target carries white and no color_mode
C4_FirstColorOnlyUnlessWhite ==
    \A i \in Tasks :
        (/\ C4_Case(i)
         /\ ~("white" \in DOMAIN states[i].attributes
              /\ "color_mode" \notin DOMAIN states[i].attributes))
        => C4_OnlyFirstColor(i)

\* C4 witness: two colors on a target without color_mode, the later one left out
C4_Witness ==
    \E i \in Tasks :
        /\ C4_Case(i)
        /\ "white" \notin DOMAIN states[i].attributes
        /\ Cardinality(DOMAIN states[i].attributes \cap ColorNames) >= 2
        /\ CallsOf(i) # {}

----------------------------------------------------------------------------
(* C5 *)

\* C5: target off against an entity that is on: exactly one action, a turn_off
\* whose parameters are the entity id and, if given, the transition override
C5_TurnOffOnly ==
    \A i \in Tasks :
        (Started(i) /\ Present(i) /\ states[i].state = "off" /\ Cur(i).state = "on") =>
            /\ Cardinality(CallsOf(i)) = 1
            /\ \A k \in CallsOf(i) :
                  LET data == service_calls[k].data
                  IN  /\ service_calls[k].service = "turn_off"
                      /\ DOMAIN data = {"entity_id"} \cup (IF HasOverride THEN {"transition"} ELSE {})
                      /\ data["entity_id"] = states[i].entity_id
                      /\ HasOverride => data["transition"] = Override

\* C5 witness: a turn_off for a target that carries brightness, a color and a
\* mode, with a transition override
C5_Witness ==
    \E i \in Tasks :
        /\ Present(i) /\ states[i].state = "off" /\ Cur(i).state = "on"
        /\ {"brightness", "hs_color", "color_mode"} \subseteq DOMAIN states[i].attributes
        /\ HasOverride
        /\ CallsOf(i) # {}

----------------------------------------------------------------------------
(* C6 *)

WhiteWithoutMode(i) ==
    /\ "white" \in DOMAIN states[i].attributes
    /\ "color_mode" \notin DOMAIN states[i].attributes

\* C6: a target with white and no color_mode is handled as its derived copy:
\* the idempotence check compares the copy, the copy never lacks its source
\* attribute, and a dispatched turn_on has brightness and white set to the
\* white value
C6_WhiteDerivedCopy ==
    \A i \in Tasks :
        (Started(i) /\ Present(i) /\ states[i].state \in {"on", "off"} /\ WhiteWithoutMode(i)) =>
            /\ CallsOf(i) = {} <=> Idempotent(i)
            /\ ~Warned(i, "missing_attribute")
            /\ \A k \in CallsOf(i) :
                  LET data == service_calls[k].data
                  IN  service_calls[k].service = "turn_on" =>
                        /\ {"brightness", "white"} \subseteq DOMAIN data
                        /\ data["brightness"] = states[i].attributes["white"]
                        /\ data["white"] = states[i].attributes["white"]

\* C6 witness: a turn_on for a target whose own brightness differs from its white
C6_Witness ==
    \E i \in Tasks :
        /\ WhiteWithoutMode(i)
        /\ "brightness" \in DOMAIN states[i].attributes
        /\ states[i].attributes["brightness"] # states[i].attributes["white"]
        /\ \E k \in CallsOf(i) : service_calls[k].service = "turn_on"

----------------------------------------------------------------------------
(* C10 *)

C10_Case(i) ==
    /\ OnAndNeeded(i)
    /\ "color_mode" \in DOMAIN states[i].attributes
    /\ states[i].attributes["color_mode"] # "unknown"

\* C10: a needed on-target with a color_mode other than unknown: the turn_on
\* never has white_value; for a mapped mode it has the mode's parameter set to
\* the value of the mode's source attribute and no other color parameter
C10_ColorModePrecedence ==
    \A i \in Tasks :
        C10_Case(i) =>
            /\ ~LacksModeSource(i) => Cardinality(CallsOf(i)) = 1
            /\ \A k \in CallsOf(i) :
                  LET data == service_calls[k].data
                  IN  /\ service_calls[k].service = "turn_on"
                      /\ "white_value" \notin DOMAIN data
                      /\ DeclaresMappedMode(i) =>
                            /\ ModeParameter(i) \in DOMAIN data
                            /\ data[ModeParameter(i)] = states[i].attributes[ModeSource(i)]
                            /\ DOMAIN data \cap ColorNames \subseteq {ModeParameter(i)}

\* C10 witness: a turn_on for a mapped mode whose target also carries another color
C10_Witness ==
    \E i \in Tasks :
        /\ C10_Case(i) /\ DeclaresMappedMode(i)
        /\ (DOMAIN states[i].attributes \cap ColorNames) \ {ModeParameter(i), ModeSource(i)} # {}
        /\ CallsOf(i) # {}

----------------------------------------------------------------------------
(* C9 *)

\* C9: for a target that is off no attribute is consulted: whether an action is
\* dispatched depends on the current power state alone (none when it is off
\* already), and the action carries nothing but the entity id and the override
C9_OffIgnoresAttributes ==
    \A i \in Tasks :
        (Started(i) /\ Present(i) /\ states[i].state = "off") =>
            /\ CallsOf(i) = {} <=> Cur(i).state = "off"
            /\ \A k \in CallsOf(i) :
                  DOMAIN service_calls[k].data \subseteq {"entity_id", "transition"}

----------------------------------------------------------------------------
(* C7, C8: the batch *)

Rejected(i) ==
    \/ ~Present(i)
    \/ states[i].state \notin {"on", "off"}
    \/ states[i].state = "on" /\ ~Idempotent(i) /\ LacksModeSource(i)

\* what target i gets when it is reproduced alone
Alone(i) == BuildServiceCall(NormalizeWhite(states[i]), reproduce_options)

\* C7: in a batch a rejected target gets a warning and no action, and every
\* other target that is not yet reached gets exactly one action, the one it
\* gets alone, whatever the other targets are and however the steps interleave
C7_BatchIsolation ==
    \A i \in Tasks :
        Started(i) =>
            IF Rejected(i)
            THEN /\ CallsOf(i) = {}
                 /\ \/ Warned(i, "not_found") \/ Warned(i, "invalid_state")
                    \/ Warned(i, "missing_attribute")
            ELSE IF Idempotent(i)
            THEN CallsOf(i) = {}
            ELSE /\ Cardinality(CallsOf(i)) = 1
                 /\ \A k \in CallsOf(i) :
                       /\ service_calls[k].service = Alone(i).service
                       /\ service_calls[k].data = Alone(i).data

\* C7 witness: a batch that returned with one target rejected for its state and
\* another target's turn_on dispatched and finished
C7_Witness ==
    \E i, j \in Tasks :
        /\ Started(i) /\ Rejected(i)
        /\ Present(i) /\ states[i].state \notin {"on", "off"}
        /\ ~Rejected(j) /\ pc[j] = "done"
        /\ \E k \in CallsOf(j) : service_calls[k].service = "turn_on"
        /\ gather = "returned"

\* C8: async_reproduce_states returns, normally or with an error, only after
\* every action dispatch it issued has finished
C8_ReturnsAfterAllDispatches ==
    gather # "pending" => \A i \in Tasks : pc[i] # "calling"

====
